---------------------------- MODULE Spec2Model ----------------------------
(***************************************************************************)
(* The secret-rotation subsystem of go-banks: the file-backed secret store *)
(* (FileSecretProvider), its rotation handler, the TCP rotation server and *)
(* the JWT service that consumes the SecretProvider.                       *)
(*                                                                         *)
(* Cryptography is modelled symbolically: crypto/rand yields values never  *)
(* drawn before (the entropy counter), SHA-256 and base64 are injective    *)
(* constructors, and AES-GCM opens a sealed box only under the key that    *)
(* sealed it.                                                              *)
(***************************************************************************)
EXTENDS Integers, Sequences, FiniteSets, TLC

(***************************************************************************)
(* Bounds of the model.                                                    *)
(***************************************************************************)
\* handleRotateCommand invocations explored in one behaviour
MaxRotations == 3
\* injected failures of the OS (entropy source, file write)
MaxFaults == 1
\* direct callers of handleRotateCommand (goroutines of the tests)
NumDirect == 2
\* goroutines calling GetSecret / GetAllSecrets
NumReaders == 1
\* TCP connections served at once
NumConns == 1
\* lines a client writes on one connection
MaxLines == 2
\* goroutines calling IsRunning / GetAddress
NumInspectors == 1

(***************************************************************************)
(* Program constants.                                                      *)
(***************************************************************************)
\* opts.MaxDeprecated = 5 when the option is not positive
DefaultMaxDeprecated == 5
\* GenerateSecureSecret(32)
SecretBytes == 32
\* bufio.MaxScanTokenSize: the longest line bufio.NewScanner yields
MaxScanTokenSize == 65536

\* the values of opts.MaxDeprecated a caller passes
MaxDeprecatedOpts == {0, 1, 2}

Directs == 11..(10 + NumDirect)
Readers == 21..(20 + NumReaders)
Inspectors == 31..(30 + NumInspectors)
Conns == 1..NumConns
\* the five clients of the concurrent-rotation scenario
FiveClients == {1, 2, 3, 4, 5}
ConnIds == Conns \cup FiveClients
\* every goroutine that may run handleRotateCommand
Callers == ConnIds \cup Directs

NoOne == 0

(***************************************************************************)
(* Crypto primitives (package secrets, crypto.go).                         *)
(***************************************************************************)
\* the empty string, for secrets and ciphertexts
Empty == <<>>

\* base64.StdEncoding.EncodeToString
Base64Encode(bytes) == <<"b64", bytes>>

\* base64.StdEncoding.DecodeString: [err, bytes]
Base64Decode(s) ==
    IF s = Empty THEN [err |-> FALSE, bytes |-> Empty]
    ELSE IF s[1] = "b64" THEN [err |-> FALSE, bytes |-> s[2]]
    ELSE [err |-> TRUE, bytes |-> Empty]

\* sha256.Sum256([]byte(s))
Sha256(s) == <<"sha256", s>>

\* gcm.Seal(nonce, nonce, plaintext, nil): the nonce, then the sealed box
GcmSeal(key, nonce, plaintext) == <<nonce, key, plaintext>>

\* an entropy draw that failed
RandFail == 0

\* GenerateSecureSecret(byteLength), rnd the bytes rand.Read delivered
GenerateSecureSecret(byteLength, rnd) ==
    IF byteLength <= 0 THEN [err |-> TRUE, secret |-> Empty]
    ELSE IF rnd = RandFail THEN [err |-> TRUE, secret |-> Empty]
    ELSE [err |-> FALSE, secret |-> Base64Encode(rnd)]

\* variant of EncryptSecret: the key derived from the new secret
EncryptSecretUnderNew(newSecret, oldSecret, rnd) ==
    IF rnd = RandFail THEN [err |-> TRUE, data |-> Empty]
    ELSE [err |-> FALSE,
          data |-> Base64Encode(GcmSeal(Sha256(newSecret), rnd, newSecret))]

\* variant of EncryptSecret: the two secrets taken in the other order
EncryptSecretSwapped(newSecret, oldSecret, rnd) ==
    IF rnd = RandFail THEN [err |-> TRUE, data |-> Empty]
    ELSE [err |-> FALSE,
          data |-> Base64Encode(GcmSeal(Sha256(newSecret), rnd, oldSecret))]

\* EncryptSecret(newSecret, oldSecret), rnd the nonce rand.Read delivered
EncryptSecret(newSecret, oldSecret, rnd) ==
    IF rnd = RandFail THEN [err |-> TRUE, data |-> Empty]
    ELSE [err |-> FALSE,
          data |-> Base64Encode(GcmSeal(Sha256(oldSecret), rnd, newSecret))]

\* DecryptSecret(encryptedSecret, key)
DecryptSecret(encryptedSecret, key) ==
    LET dec == Base64Decode(encryptedSecret) IN
    IF dec.err THEN [err |-> "failed to decode base64", secret |-> Empty]
    ELSE IF dec.bytes = Empty THEN [err |-> "ciphertext too short", secret |-> Empty]
    ELSE IF dec.bytes[2] # Sha256(key) THEN [err |-> "failed to decrypt", secret |-> Empty]
    ELSE [err |-> "", secret |-> dec.bytes[3]]

(***************************************************************************)
(* The store and its serialized form.                                      *)
(***************************************************************************)
\* time.Time: the wall clock reading and whether a monotonic reading rides along
TimeNow(t) == [wall |-> t, mono |-> TRUE]
ZeroTime == [wall |-> 0, mono |-> FALSE]

\* SecretEntry; RotatedAt is a pointer: <<>> is nil, <<t>> is &t
SecretEntry(id, secret, createdAt) ==
    [id |-> id, secret |-> secret, created_at |-> createdAt, rotated_at |-> <<>>]

ZeroEntry == SecretEntry(Empty, Empty, ZeroTime)

\* the zero SecretStore
ZeroStore == [current |-> ZeroEntry, deprecated |-> <<>>]

\* time.Time.MarshalJSON: RFC 3339 text of the wall clock, the monotonic reading dropped
MarshalTime(t) == <<"rfc3339", t.wall>>
UnmarshalTime(j) == [wall |-> j[2], mono |-> FALSE]

\* json.Marshal of a SecretEntry; rotated_at carries omitempty
MarshalEntry(e) ==
    IF e.rotated_at = <<>>
    THEN [id |-> e.id, secret |-> e.secret, created_at |-> MarshalTime(e.created_at)]
    ELSE [id |-> e.id, secret |-> e.secret, created_at |-> MarshalTime(e.created_at),
          rotated_at |-> MarshalTime(e.rotated_at[1])]

\* variant of UnmarshalEntry: rotated_at never read
UnmarshalEntryNoRotatedAt(j) ==
    [id |-> j.id, secret |-> j.secret, created_at |-> UnmarshalTime(j.created_at),
     rotated_at |-> <<>>]

UnmarshalEntry(j) ==
    [id |-> j.id, secret |-> j.secret, created_at |-> UnmarshalTime(j.created_at),
     rotated_at |-> IF "rotated_at" \in DOMAIN j
                    THEN <<UnmarshalTime(j.rotated_at)>> ELSE <<>>]

\* variant of MarshalStore: the deprecated list left out of the document
MarshalStoreCurrentOnly(s) ==
    [current |-> MarshalEntry(s.current), deprecated |-> <<>>]

\* json.MarshalIndent(f.store, "", "  ")
MarshalStore(s) ==
    [current |-> MarshalEntry(s.current),
     deprecated |-> [i \in 1..Len(s.deprecated) |-> MarshalEntry(s.deprecated[i])]]

\* the bytes of a file whose write stopped after O_TRUNC
Truncated == [current |-> Empty]

\* variant of UnmarshalStore: the deprecated list not read
UnmarshalStoreCurrentOnly(data) ==
    IF data = Truncated THEN [err |-> TRUE, store |-> ZeroStore]
    ELSE [err |-> FALSE,
          store |-> [current |-> UnmarshalEntry(data.current), deprecated |-> <<>>]]

\* json.Unmarshal(data, &f.store): [err, store]
UnmarshalStore(data) ==
    IF data = Truncated THEN [err |-> TRUE, store |-> ZeroStore]
    ELSE [err |-> FALSE,
          store |-> [current |-> UnmarshalEntry(data.current),
                     deprecated |-> [i \in 1..Len(data.deprecated) |->
                                        UnmarshalEntry(data.deprecated[i])]]]

\* permission bits of the secrets file, as far as the program's behaviour depends
\* on them: owner read/write only, also readable by group and others, no access
OwnerOnly == "0600"
WorldReadable == "0644"
NoAccess == "0000"

NoFile == [exists |-> FALSE, data |-> Truncated, mode |-> "none"]

\* the mode of the file after OpenFile(name, O_WRONLY|O_CREATE|O_TRUNC, 0o600):
\* the perm argument is used only when the file is created
ModeAfterOpen(old) == IF old.exists THEN old.mode ELSE OwnerOnly

\* os.WriteFile(f.filePath, data, 0o600): the outcomes, fault allowed or not
WriteFile(old, data, mayFail) ==
    IF old.exists /\ old.mode = NoAccess
    THEN {[err |-> TRUE, file |-> old]}
    ELSE {[err |-> FALSE,
           file |-> [exists |-> TRUE, data |-> data, mode |-> ModeAfterOpen(old)]]}
         \cup (IF mayFail
               THEN {[err |-> TRUE, file |-> old],
                     [err |-> TRUE,
                      file |-> [exists |-> TRUE, data |-> Truncated,
                                mode |-> ModeAfterOpen(old)]]}
               ELSE {})

\* what GetAllSecrets reports of a store
View(s) ==
    [current |-> s.current.secret,
     deprecated |-> [i \in 1..Len(s.deprecated) |-> s.deprecated[i].secret]]


(***************************************************************************)
(* State.                                                                  *)
(***************************************************************************)
VARIABLES
    file,           \* the secrets file at f.filePath
    prov,           \* the provider: "none", "open" (constructed), "closed" (Close called),
                    \* "exited" (its process has stopped)
    lastErr,        \* the error of the last NewFileSecretProvider call, "" when nil
    store,          \* f.store
    maxDeprecated,  \* f.maxDeprecated
    mu,             \* f.mu: the goroutine holding the write lock, those holding read locks
    pc,             \* where each goroutine running handleRotateCommand or a connection stands
    hnd,            \* the locals of each handleRotateCommand frame
    ret,            \* what each caller's last handleRotateCommand returned
    rpc,            \* where each reader goroutine stands
    rres,           \* what each reader's call has read and returned
    fresh,          \* the entropy delivered so far by crypto/rand
    clock,          \* the wall clock
    faultsLeft,     \* failures of the OS still to inject
    budget,         \* handleRotateCommand invocations still to explore
    rotLog,         \* history: the rotations of this provider, in the order they took effect
    committed,      \* history: the store views at construction and at each write-lock release
    allOk,          \* history: whether every handleRotateCommand call on this provider returned nil
    fromFile,       \* history: whether this provider loaded its store from an existing file
    srv,            \* TCPRotationServer: running, listener, address
    sock,           \* the listening socket net.Listen returned: "none", "open", "closed"
    spc,            \* where the goroutine running server.Start stands
    sret,           \* what server.Start returned
    ctxDone,        \* whether the provider's context is cancelled
    wpc,            \* where the goroutine waiting on ctx.Done() stands
    stopCalled,     \* history: whether a Stop() call has returned since Start began
    smu,            \* s.mu: the goroutine holding the write lock, those holding read locks
    ipc,            \* where each goroutine calling IsRunning or GetAddress stands
    ires,           \* what each such call has returned
    inbox,          \* per connection: the lines written by the client and not yet scanned
    sent,           \* per connection: how many lines the client has written
    cmd,            \* per connection: the line in hand and the handler calls made for it
    served,         \* per connection: the responses written, each with its line
    jwt,            \* JWTService: whether constructed, and its secret field
    token           \* the last token signed: its key and the live secret at signing

vars == <<file, prov, lastErr, store, maxDeprecated, mu, pc, hnd, ret, rpc, rres,
          fresh, clock, faultsLeft, budget, rotLog, committed, allOk, fromFile,
          srv, sock, spc, sret, ctxDone, wpc, stopCalled, smu, ipc, ires,
          inbox, sent, cmd, served, jwt, token>>

storeVars == <<file, store, fresh, clock, faultsLeft, rotLog>>
provVars == <<prov, lastErr, maxDeprecated, fromFile>>
readerVars == <<rpc, rres>>
apiVars == <<smu, ipc, ires>>
serverVars == <<srv, sock, spc, sret, ctxDone, wpc, stopCalled, apiVars>>
connVars == <<inbox, sent, cmd, served>>
jwtVars == <<jwt, token>>

ZeroFrame == [newSecret |-> Empty, enc |-> Empty, now |-> ZeroTime, err |-> "",
              pre |-> Empty]
ZeroRet == [n |-> 0, data |-> Empty, err |-> "", pre |-> Empty, post |-> Empty]
ZeroRead == [done |-> FALSE, op |-> "", current |-> Empty, deprecated |-> <<>>, err |-> ""]
ZeroServer == [running |-> FALSE, listener |-> "nil", address |-> "configured"]
ZeroInspect == [done |-> FALSE, op |-> "", running |-> FALSE, address |-> ""]
\* an error text: <<>> when absent, else the message and what is appended to it
NoError == <<>>
ZeroResponse == [success |-> FALSE, encrypted_data |-> Empty, error |-> NoError]
NoLine == [kind |-> "none", text |-> "", size |-> 0]
ZeroCmd == [line |-> NoLine, calls |-> 0, resp |-> ZeroResponse]

\* the process before any provider is constructed
\* the process before it has constructed anything
InitMemory ==
    /\ prov = "none"
    /\ lastErr = ""
    /\ store = ZeroStore
    /\ maxDeprecated = 0
    /\ mu = [writer |-> NoOne, readers |-> {}]
    /\ pc = [p \in Callers |-> IF p \in Directs THEN "idle" ELSE "free"]
    /\ hnd = [p \in Callers |-> ZeroFrame]
    /\ ret = [p \in Callers |-> ZeroRet]
    /\ rpc = [r \in Readers |-> "idle"]
    /\ rres = [r \in Readers |-> ZeroRead]
    /\ fresh = 0
    /\ clock = 0
    /\ rotLog = <<>>
    /\ committed = {}
    /\ allOk = TRUE
    /\ fromFile = FALSE
    /\ srv = ZeroServer
    /\ sock = "none"
    /\ spc = "none"
    /\ sret = "none"
    /\ ctxDone = FALSE
    /\ wpc = "none"
    /\ stopCalled = FALSE
    /\ smu = [writer |-> NoOne, readers |-> {}]
    /\ ipc = [i \in Inspectors |-> "idle"]
    /\ ires = [i \in Inspectors |-> ZeroInspect]
    /\ inbox = [c \in ConnIds |-> <<>>]
    /\ sent = [c \in ConnIds |-> 0]
    /\ cmd = [c \in ConnIds |-> ZeroCmd]
    /\ served = [c \in ConnIds |-> <<>>]
    /\ jwt = [made |-> FALSE, secret |-> Empty]
    /\ token = [issued |-> FALSE, key |-> Empty, live |-> Empty]

\* a process started where no secrets file exists
InitProcess ==
    /\ InitMemory
    /\ file = NoFile

Init ==
    /\ InitProcess
    /\ budget = MaxRotations
    /\ faultsLeft = MaxFaults

\* whether the OS may fail once more
MayFail == faultsLeft > 0

\* no goroutine of the process is inside the provider
Quiescent ==
    /\ mu = [writer |-> NoOne, readers |-> {}]
    /\ \A p \in Callers : pc[p] \in {"idle", "free", "scan", "closed"}
    /\ \A r \in Readers : rpc[r] = "idle"
    /\ \A i \in Inspectors : ipc[i] = "idle"

(***************************************************************************)
(* NewFileSecretProvider: initialize (loadFromFile or createInitialSecret), *)
(* then the server is created and server.Start(ctx) launched.  The call    *)
(* stands for a process start: the goroutines and connections of an        *)
(* earlier provider are gone.                                              *)
(***************************************************************************)
\* opts.MaxDeprecated after defaulting
EffectiveMaxDeprecated(opt) == IF opt <= 0 THEN DefaultMaxDeprecated ELSE opt

\* variant of loadFromFile: the current secret not validated
loadFromFileUnvalidated(f) ==
    IF ~f.exists THEN [err |-> "not exist", store |-> ZeroStore]
    ELSE IF f.mode = NoAccess THEN [err |-> "permission denied", store |-> ZeroStore]
    ELSE LET u == UnmarshalStore(f.data) IN
         IF u.err THEN [err |-> "failed to parse secrets file", store |-> u.store]
         ELSE [err |-> "", store |-> u.store]

\* variant of loadFromFile: every failure reported as the file not existing
loadFromFileOrAbsent(f) ==
    IF ~f.exists \/ f.mode = NoAccess THEN [err |-> "not exist", store |-> ZeroStore]
    ELSE LET u == UnmarshalStore(f.data) IN
         IF u.err \/ u.store.current.secret = Empty
         THEN [err |-> "not exist", store |-> u.store]
         ELSE [err |-> "", store |-> u.store]

\* loadFromFile: [err, store]
loadFromFile(f) ==
    IF ~f.exists THEN [err |-> "not exist", store |-> ZeroStore]
    ELSE IF f.mode = NoAccess THEN [err |-> "permission denied", store |-> ZeroStore]
    ELSE LET u == UnmarshalStore(f.data) IN
         IF u.err THEN [err |-> "failed to parse secrets file", store |-> u.store]
         ELSE IF u.store.current.secret = Empty
              THEN [err |-> "no current secret found in file", store |-> u.store]
              ELSE [err |-> "", store |-> u.store]

\* the state a constructed provider starts in
Constructed(opt, st, loaded) ==
    /\ prov' = "open"
    /\ lastErr' = ""
    /\ store' = st
    /\ maxDeprecated' = EffectiveMaxDeprecated(opt)
    /\ fromFile' = loaded
    /\ committed' = {View(st)}
    /\ allOk' = TRUE
    /\ rotLog' = <<>>
    /\ srv' = ZeroServer
    /\ sock' = "none"
    /\ spc' = "entry"
    /\ sret' = "none"
    /\ ctxDone' = FALSE
    /\ wpc' = "none"
    /\ stopCalled' = FALSE
    /\ smu' = [writer |-> NoOne, readers |-> {}]
    /\ ipc' = [i \in Inspectors |-> "idle"]
    /\ ires' = [i \in Inspectors |-> ZeroInspect]

\* the state after a failed construction: no provider
NotConstructed(msg) ==
    /\ prov' = "none"
    /\ lastErr' = msg
    /\ store' = ZeroStore
    /\ maxDeprecated' = 0
    /\ fromFile' = FALSE
    /\ committed' = {}
    /\ allOk' = TRUE
    /\ rotLog' = <<>>
    /\ srv' = ZeroServer
    /\ sock' = "none"
    /\ spc' = "none"
    /\ sret' = "none"
    /\ ctxDone' = TRUE
    /\ wpc' = "none"
    /\ stopCalled' = FALSE
    /\ smu' = [writer |-> NoOne, readers |-> {}]
    /\ ipc' = [i \in Inspectors |-> "idle"]
    /\ ires' = [i \in Inspectors |-> ZeroInspect]

NewFileSecretProvider(opt) ==
    /\ prov \in {"none", "closed", "exited"}
    /\ Quiescent
    /\ mu' = [writer |-> NoOne, readers |-> {}]
    /\ pc' = [p \in Callers |-> IF p \in Directs THEN "idle" ELSE "free"]
    /\ hnd' = [p \in Callers |-> ZeroFrame]
    /\ ret' = [p \in Callers |-> ZeroRet]
    /\ inbox' = [c \in ConnIds |-> <<>>]
    /\ sent' = [c \in ConnIds |-> 0]
    /\ cmd' = [c \in ConnIds |-> ZeroCmd]
    /\ served' = [c \in ConnIds |-> <<>>]
    /\ rpc' = [r \in Readers |-> "idle"]
    /\ rres' = [r \in Readers |-> ZeroRead]
    /\ UNCHANGED <<budget, jwtVars>>
    /\ LET l == loadFromFile(file) IN
       IF l.err = ""
       THEN /\ Constructed(opt, l.store, TRUE)
            /\ UNCHANGED <<file, fresh, clock, faultsLeft>>
       ELSE IF l.err # "not exist"
       THEN /\ NotConstructed("failed to load secrets file")
            /\ UNCHANGED <<file, fresh, clock, faultsLeft>>
       ELSE \* createInitialSecret
         \/ /\ MayFail
            /\ GenerateSecureSecret(SecretBytes, RandFail).err
            /\ faultsLeft' = faultsLeft - 1
            /\ NotConstructed("failed to generate initial secret")
            /\ UNCHANGED <<file, fresh, clock>>
         \/ LET g == GenerateSecureSecret(SecretBytes, fresh + 1)
                st == [current |-> SecretEntry(<<"uuid", fresh + 2>>, g.secret,
                                                TimeNow(clock + 1)),
                       deprecated |-> <<>>]
            IN /\ ~g.err
               /\ fresh' = fresh + 2
               /\ clock' = clock + 1
               /\ \E w \in WriteFile(file, MarshalStore(st), MayFail) :
                    /\ file' = w.file
                    /\ IF w.err
                       THEN /\ faultsLeft' = faultsLeft - 1
                            /\ NotConstructed("failed to write secrets file")
                       ELSE /\ faultsLeft' = faultsLeft
                            /\ Constructed(opt, st, FALSE)

\* the check of opts.FilePath at the head of NewFileSecretProvider: the error, "" when nil
CheckOptions(path) == IF path = "" THEN "file path cannot be empty" ELSE ""

\* NewFileSecretProvider(FileSecretProviderOptions{FilePath: path, MaxDeprecated: opt})
NewFileSecretProviderAt(path, opt) ==
    IF CheckOptions(path) # ""
    THEN /\ prov \in {"none", "closed", "exited"}
         /\ Quiescent
         /\ NotConstructed(CheckOptions(path))
         /\ mu' = [writer |-> NoOne, readers |-> {}]
         /\ pc' = [p \in Callers |-> IF p \in Directs THEN "idle" ELSE "free"]
         /\ hnd' = [p \in Callers |-> ZeroFrame]
         /\ ret' = [p \in Callers |-> ZeroRet]
         /\ inbox' = [c \in ConnIds |-> <<>>]
         /\ sent' = [c \in ConnIds |-> 0]
         /\ cmd' = [c \in ConnIds |-> ZeroCmd]
         /\ served' = [c \in ConnIds |-> <<>>]
         /\ rpc' = [r \in Readers |-> "idle"]
         /\ rres' = [r \in Readers |-> ZeroRead]
         /\ UNCHANGED <<file, fresh, clock, faultsLeft, budget, jwtVars>>
    ELSE NewFileSecretProvider(opt)

(***************************************************************************)
(* sync.RWMutex.                                                           *)
(***************************************************************************)
\* variant of CanLock: no exclusion between writers
CanLockShared(m) == m.readers = {}

\* f.mu.Lock() returns only when no goroutine holds the lock in either mode
CanLock(m) == m.writer = NoOne /\ m.readers = {}

\* variant of CanRLock: readers admitted while the writer holds the lock
CanRLockAnytime(m) == TRUE

\* f.mu.RLock() returns only when no goroutine holds the write lock
CanRLock(m) == m.writer = NoOne

(***************************************************************************)
(* handleRotateCommand, one action per statement group.                    *)
(***************************************************************************)
\* variant of TrimDeprecated: the newest entries dropped instead of the oldest
TrimDeprecatedKeepOldest(dep, max) ==
    IF Len(dep) > max THEN SubSeq(dep, 1, max) ELSE dep

\* variant of TrimDeprecated: trimmed one entry too early
TrimDeprecatedEarly(dep, max) ==
    IF Len(dep) >= max /\ max > 0 THEN SubSeq(dep, Len(dep) - max + 2, Len(dep)) ELSE dep

\* f.store.Deprecated[len(f.store.Deprecated)-f.maxDeprecated:] when over the limit
TrimDeprecated(dep, max) ==
    IF Len(dep) > max THEN SubSeq(dep, Len(dep) - max + 1, Len(dep)) ELSE dep

\* a test goroutine calls provider.handleRotateCommand()
CallRotate(p) ==
    /\ prov \in {"open", "closed"}
    /\ pc[p] = "idle"
    /\ budget > 0
    /\ budget' = budget - 1
    /\ pc' = [pc EXCEPT ![p] = "lock"]
    /\ hnd' = [hnd EXCEPT ![p] = ZeroFrame]
    /\ UNCHANGED <<storeVars, provVars, mu, ret, readerVars, committed, allOk,
                   serverVars, connVars, jwtVars>>

\* f.mu.Lock()
HLock(p) ==
    /\ pc[p] = "lock"
    /\ CanLock(mu)
    /\ mu' = [mu EXCEPT !.writer = p]
    /\ hnd' = [hnd EXCEPT ![p].pre = store.current.secret]
    /\ pc' = [pc EXCEPT ![p] = "gen"]
    /\ UNCHANGED <<storeVars, provVars, ret, readerVars, budget, committed, allOk,
                   serverVars, connVars, jwtVars>>

\* newSecret, err := GenerateSecureSecret(32)
HGenerate(p) ==
    /\ pc[p] = "gen"
    /\ \/ /\ MayFail
          /\ GenerateSecureSecret(SecretBytes, RandFail).err
          /\ faultsLeft' = faultsLeft - 1
          /\ hnd' = [hnd EXCEPT ![p].err = "failed to generate new secret"]
          /\ pc' = [pc EXCEPT ![p] = "unlock"]
          /\ UNCHANGED fresh
       \/ LET g == GenerateSecureSecret(SecretBytes, fresh + 1) IN
          /\ ~g.err
          /\ fresh' = fresh + 1
          /\ hnd' = [hnd EXCEPT ![p].newSecret = g.secret]
          /\ pc' = [pc EXCEPT ![p] = "enc"]
          /\ UNCHANGED faultsLeft
    /\ UNCHANGED <<file, store, clock, rotLog, provVars, mu, ret, readerVars, budget,
                   committed, allOk, serverVars, connVars, jwtVars>>

\* variant of HEncrypt: the current entry stamped before the encryption is tried
HEncryptStamped(p) ==
    /\ pc[p] = "enc"
    /\ store' = [store EXCEPT !.current.rotated_at = <<TimeNow(clock)>>]
    /\ \/ /\ MayFail
          /\ EncryptSecret(hnd[p].newSecret, store.current.secret, RandFail).err
          /\ faultsLeft' = faultsLeft - 1
          /\ hnd' = [hnd EXCEPT ![p].err = "failed to encrypt new secret"]
          /\ pc' = [pc EXCEPT ![p] = "unlock"]
          /\ UNCHANGED fresh
       \/ LET e == EncryptSecret(hnd[p].newSecret, store.current.secret, fresh + 1) IN
          /\ ~e.err
          /\ fresh' = fresh + 1
          /\ hnd' = [hnd EXCEPT ![p].enc = e.data]
          /\ pc' = [pc EXCEPT ![p] = "retire"]
          /\ UNCHANGED faultsLeft
    /\ UNCHANGED <<file, clock, rotLog, provVars, mu, ret, readerVars, budget,
                   committed, allOk, serverVars, connVars, jwtVars>>

\* encryptedResponse, err := EncryptSecret(newSecret, f.store.Current.Secret)
HEncrypt(p) ==
    /\ pc[p] = "enc"
    /\ \/ /\ MayFail
          /\ EncryptSecret(hnd[p].newSecret, store.current.secret, RandFail).err
          /\ faultsLeft' = faultsLeft - 1
          /\ hnd' = [hnd EXCEPT ![p].err = "failed to encrypt new secret"]
          /\ pc' = [pc EXCEPT ![p] = "unlock"]
          /\ UNCHANGED fresh
       \/ LET e == EncryptSecret(hnd[p].newSecret, store.current.secret, fresh + 1) IN
          /\ ~e.err
          /\ fresh' = fresh + 1
          /\ hnd' = [hnd EXCEPT ![p].enc = e.data]
          /\ pc' = [pc EXCEPT ![p] = "retire"]
          /\ UNCHANGED faultsLeft
    /\ UNCHANGED <<file, store, clock, rotLog, provVars, mu, ret, readerVars, budget,
                   committed, allOk, serverVars, connVars, jwtVars>>

\* now := time.Now(); f.store.Current.RotatedAt = &now;
\* f.store.Deprecated = append(f.store.Deprecated, f.store.Current)
HRetire(p) ==
    /\ pc[p] = "retire"
    /\ LET now == TimeNow(clock + 1)
           cur == [store.current EXCEPT !.rotated_at = <<now>>]
       IN /\ clock' = clock + 1
          /\ hnd' = [hnd EXCEPT ![p].now = now]
          /\ store' = [current |-> cur, deprecated |-> Append(store.deprecated, cur)]
    /\ pc' = [pc EXCEPT ![p] = "install"]
    /\ UNCHANGED <<file, fresh, faultsLeft, rotLog, provVars, mu, ret, readerVars, budget,
                   committed, allOk, serverVars, connVars, jwtVars>>

\* f.store.Current = SecretEntry{ID: uuid.New().String(), Secret: newSecret, CreatedAt: now}
HInstall(p) ==
    /\ pc[p] = "install"
    /\ fresh' = fresh + 1
    /\ store' = [store EXCEPT
                   !.current = SecretEntry(<<"uuid", fresh + 1>>, hnd[p].newSecret, hnd[p].now)]
    /\ rotLog' = Append(rotLog, [old |-> store.current.secret,
                                 new |-> hnd[p].newSecret,
                                 data |-> hnd[p].enc,
                                 by |-> p])
    /\ pc' = [pc EXCEPT ![p] = "trim"]
    /\ UNCHANGED <<file, clock, faultsLeft, provVars, mu, hnd, ret, readerVars, budget,
                   committed, allOk, serverVars, connVars, jwtVars>>

\* if len(f.store.Deprecated) > f.maxDeprecated { ... }
HTrim(p) ==
    /\ pc[p] = "trim"
    /\ store' = [store EXCEPT !.deprecated = TrimDeprecated(store.deprecated, maxDeprecated)]
    /\ pc' = [pc EXCEPT ![p] = "save"]
    /\ UNCHANGED <<file, fresh, clock, faultsLeft, rotLog, provVars, mu, hnd, ret, readerVars,
                   budget, committed, allOk, serverVars, connVars, jwtVars>>

\* if err := f.saveToFile(); err != nil { return "", ... }
HSave(p) ==
    /\ pc[p] = "save"
    /\ \E w \in WriteFile(file, MarshalStore(store), MayFail) :
         /\ file' = w.file
         /\ faultsLeft' = IF w.err THEN faultsLeft - 1 ELSE faultsLeft
         /\ hnd' = [hnd EXCEPT ![p].err =
                       IF w.err THEN "failed to save rotated secrets" ELSE ""]
    /\ pc' = [pc EXCEPT ![p] = "unlock"]
    /\ UNCHANGED <<store, fresh, clock, rotLog, provVars, mu, ret, readerVars, budget,
                   committed, allOk, serverVars, connVars, jwtVars>>

\* variant of HReturn: the deferred f.mu.Unlock() left out
HReturnKeepsLock(p) ==
    /\ pc[p] = "unlock"
    /\ mu' = mu
    /\ ret' = [ret EXCEPT ![p] =
                 [n |-> ret[p].n + 1,
                  data |-> IF hnd[p].err = "" THEN hnd[p].enc ELSE Empty,
                  err |-> hnd[p].err,
                  pre |-> hnd[p].pre,
                  post |-> store.current.secret]]
    /\ committed' = committed \cup {View(store)}
    /\ allOk' = (allOk /\ hnd[p].err = "")
    /\ hnd' = [hnd EXCEPT ![p] = ZeroFrame]
    /\ pc' = [pc EXCEPT ![p] = IF p \in Directs THEN "idle" ELSE "respond"]
    /\ UNCHANGED <<storeVars, provVars, readerVars, budget,
                   serverVars, connVars, jwtVars>>

\* return, and the deferred f.mu.Unlock()
HReturn(p) ==
    /\ pc[p] = "unlock"
    /\ mu' = [mu EXCEPT !.writer = NoOne]
    /\ ret' = [ret EXCEPT ![p] =
                 [n |-> ret[p].n + 1,
                  data |-> IF hnd[p].err = "" THEN hnd[p].enc ELSE Empty,
                  err |-> hnd[p].err,
                  pre |-> hnd[p].pre,
                  post |-> store.current.secret]]
    /\ committed' = committed \cup {View(store)}
    /\ allOk' = (allOk /\ hnd[p].err = "")
    /\ hnd' = [hnd EXCEPT ![p] = ZeroFrame]
    /\ pc' = [pc EXCEPT ![p] = IF p \in Directs THEN "idle" ELSE "respond"]
    /\ UNCHANGED <<storeVars, provVars, readerVars, budget,
                   serverVars, connVars, jwtVars>>

Handler(p) ==
    \/ HLock(p)
    \/ HGenerate(p)
    \/ HEncrypt(p)
    \/ HRetire(p)
    \/ HInstall(p)
    \/ HTrim(p)
    \/ HSave(p)
    \/ HReturn(p)


(***************************************************************************)
(* The process stops (killed, or the machine loses power): its goroutines  *)
(* and sockets are gone, and a file write in progress is cut short.  The   *)
(* memory of the dead process is kept as a record of what it held.         *)
(***************************************************************************)
\* the file after a process stops while p may be inside os.WriteFile
FileAfterStop(f, st, writing) ==
    IF writing
    THEN {f} \cup {w.file : w \in WriteFile(f, MarshalStore(st), TRUE)}
    ELSE {f}

ProcessStops ==
    /\ prov \in {"open", "closed"}
    /\ prov' = "exited"
    /\ file' \in FileAfterStop(file, store, \E p \in Callers : pc[p] = "save")
    /\ mu' = [writer |-> NoOne, readers |-> {}]
    /\ pc' = [p \in Callers |-> IF p \in Directs THEN "idle" ELSE "free"]
    /\ rpc' = [r \in Readers |-> "idle"]
    /\ smu' = [writer |-> NoOne, readers |-> {}]
    /\ ipc' = [i \in Inspectors |-> "idle"]
    /\ sock' = IF sock = "open" THEN "closed" ELSE sock
    /\ spc' = "none"
    /\ wpc' = "none"
    /\ UNCHANGED <<store, fresh, clock, faultsLeft, rotLog, lastErr, maxDeprecated, fromFile,
                   hnd, ret, rres, budget, committed, allOk, srv, sret, ctxDone, stopCalled,
                   ires, connVars, jwtVars>>

(***************************************************************************)
(* GetSecret and GetAllSecrets, called from reader goroutines.             *)
(***************************************************************************)
\* a goroutine calls GetSecret() or GetAllSecrets()
CallRead(r, op) ==
    /\ prov \in {"open", "closed"}
    /\ rpc[r] = "idle"
    /\ rpc' = [rpc EXCEPT ![r] = "rlock"]
    /\ rres' = [rres EXCEPT ![r] = [ZeroRead EXCEPT !.op = op]]
    /\ UNCHANGED <<storeVars, provVars, mu, pc, hnd, ret, budget, committed, allOk,
                   serverVars, connVars, jwtVars>>

\* f.mu.RLock()
RLock(r) ==
    /\ rpc[r] = "rlock"
    /\ CanRLock(mu)
    /\ mu' = [mu EXCEPT !.readers = @ \cup {r}]
    /\ rpc' = [rpc EXCEPT ![r] = IF rres[r].op = "GetSecret" THEN "gs" ELSE "ga_current"]
    /\ UNCHANGED <<storeVars, provVars, pc, hnd, ret, rres, budget, committed, allOk,
                   serverVars, connVars, jwtVars>>

\* GetSecret: the test of f.store.Current.Secret, the return and the deferred RUnlock
GetSecretReturn(r) ==
    /\ rpc[r] = "gs"
    /\ mu' = [mu EXCEPT !.readers = @ \ {r}]
    /\ rres' = [rres EXCEPT ![r] =
                  IF store.current.secret = Empty
                  THEN [@ EXCEPT !.done = TRUE, !.err = "no active secret available"]
                  ELSE [@ EXCEPT !.done = TRUE, !.current = store.current.secret]]
    /\ rpc' = [rpc EXCEPT ![r] = "idle"]
    /\ UNCHANGED <<storeVars, provVars, pc, hnd, ret, budget, committed, allOk,
                   serverVars, connVars, jwtVars>>

\* GetAllSecrets: current = f.store.Current.Secret
GetAllCurrent(r) ==
    /\ rpc[r] = "ga_current"
    /\ rres' = [rres EXCEPT ![r].current = store.current.secret]
    /\ rpc' = [rpc EXCEPT ![r] = "ga_deprecated"]
    /\ UNCHANGED <<storeVars, provVars, mu, pc, hnd, ret, budget, committed, allOk,
                   serverVars, connVars, jwtVars>>

\* GetAllSecrets: the copy of the deprecated secrets, the return and the deferred RUnlock
GetAllReturn(r) ==
    /\ rpc[r] = "ga_deprecated"
    /\ mu' = [mu EXCEPT !.readers = @ \ {r}]
    /\ rres' = [rres EXCEPT ![r].done = TRUE,
                            ![r].deprecated = View(store).deprecated]
    /\ rpc' = [rpc EXCEPT ![r] = "idle"]
    /\ UNCHANGED <<storeVars, provVars, pc, hnd, ret, budget, committed, allOk,
                   serverVars, connVars, jwtVars>>

Reader(r) ==
    \/ CallRead(r, "GetSecret")
    \/ CallRead(r, "GetAllSecrets")
    \/ RLock(r)
    \/ GetSecretReturn(r)
    \/ GetAllCurrent(r)
    \/ GetAllReturn(r)

(***************************************************************************)
(* TCPRotationServer.Stop and FileSecretProvider.Close.                    *)
(***************************************************************************)
\* Stop(), under s.mu: the running flag after the call
Stopped(s) == [s EXCEPT !.running = FALSE]

\* Stop(): the socket after the call; s.listener.Close() when running and s.listener != nil
StoppedSocket(s, so) == IF s.running /\ s.listener # "nil" THEN "closed" ELSE so

\* whether the goroutine running Start has passed its first statement
StartBegun == spc \notin {"none", "entry"}

\* Close(): f.cancelFunc(), then f.server.Stop()
Close ==
    /\ prov \in {"open", "closed"}
    /\ CanLock(smu)
    /\ prov' = "closed"
    /\ ctxDone' = TRUE
    /\ srv' = Stopped(srv)
    /\ sock' = StoppedSocket(srv, sock)
    /\ stopCalled' = (stopCalled \/ StartBegun)
    /\ UNCHANGED <<storeVars, lastErr, maxDeprecated, fromFile, mu, pc, hnd, ret,
                   readerVars, budget, committed, allOk, spc, sret, wpc, apiVars,
                   connVars, jwtVars>>

(***************************************************************************)
(* TCPRotationServer.Start, run by the goroutine the constructor launches. *)
(***************************************************************************)
\* s.mu.Lock(); if s.running { return error }; s.running = true; s.mu.Unlock()
StartEntry ==
    /\ spc = "entry"
    /\ CanLock(smu)
    /\ IF srv.running
       THEN /\ spc' = "returned"
            /\ sret' = "server is already running"
            /\ UNCHANGED srv
       ELSE /\ spc' = "listen"
            /\ srv' = [srv EXCEPT !.running = TRUE]
            /\ UNCHANGED sret
    /\ UNCHANGED <<storeVars, provVars, mu, pc, hnd, ret, readerVars, budget, committed, allOk,
                   sock, ctxDone, wpc, stopCalled, apiVars, connVars, jwtVars>>

\* listener, err := net.Listen("tcp", s.address), and the error return
StartListen ==
    /\ spc = "listen"
    /\ \/ /\ sock' = "open"
          /\ spc' = "bind"
          /\ UNCHANGED <<srv, sret, faultsLeft>>
       \/ /\ MayFail
          /\ CanLock(smu)
          /\ faultsLeft' = faultsLeft - 1
          /\ srv' = [srv EXCEPT !.running = FALSE]
          /\ spc' = "returned"
          /\ sret' = "failed to listen"
          /\ UNCHANGED sock
    /\ UNCHANGED <<file, store, fresh, clock, rotLog, provVars, mu, pc, hnd, ret,
                   readerVars, budget, committed, allOk, ctxDone, wpc, stopCalled,
                   apiVars, connVars, jwtVars>>

\* s.listener = listener; s.address = listener.Addr().String(); go func() { <-ctx.Done() ... }()
StartBind ==
    /\ spc = "bind"
    /\ CanLock(smu)
    /\ srv' = [srv EXCEPT !.listener = "set", !.address = "bound"]
    /\ wpc' = "wait"
    /\ spc' = "accept"
    /\ UNCHANGED <<storeVars, provVars, mu, pc, hnd, ret, readerVars, budget, committed, allOk,
                   sock, sret, ctxDone, stopCalled, apiVars, connVars, jwtVars>>

\* <-ctx.Done(); s.Stop()
ContextWatcher ==
    /\ wpc = "wait"
    /\ ctxDone
    /\ CanLock(smu)
    /\ srv' = Stopped(srv)
    /\ sock' = StoppedSocket(srv, sock)
    /\ stopCalled' = (stopCalled \/ StartBegun)
    /\ wpc' = "done"
    /\ UNCHANGED <<storeVars, provVars, mu, pc, hnd, ret, readerVars, budget, committed, allOk,
                   spc, sret, ctxDone, apiVars, connVars, jwtVars>>

\* conn, err := listener.Accept() succeeds for a client that dialed; go s.handleConnection(conn)
Accept(c) ==
    /\ spc = "accept"
    /\ sock = "open"
    /\ pc[c] = "free"
    /\ pc' = [pc EXCEPT ![c] = "scan"]
    /\ UNCHANGED <<storeVars, provVars, mu, hnd, ret, readerVars, budget, committed, allOk,
                   serverVars, connVars, jwtVars>>

\* variant of AcceptError: the error returned without looking at the running flag
AcceptErrorUnchecked ==
    /\ spc = "accept"
    /\ sock = "closed"
    /\ CanRLock(smu)
    /\ spc' = "returned"
    /\ sret' = "failed to accept connection"
    /\ UNCHANGED <<storeVars, provVars, mu, pc, hnd, ret, readerVars, budget, committed, allOk,
                   srv, sock, ctxDone, wpc, stopCalled, apiVars, connVars, jwtVars>>

\* listener.Accept() fails, on the closed listener or on an open one that the OS
\* refuses a connection for: nil when !running, the error otherwise
AcceptError ==
    /\ spc = "accept"
    /\ \/ /\ sock = "closed"
          /\ UNCHANGED faultsLeft
       \/ /\ sock = "open"
          /\ MayFail
          /\ faultsLeft' = faultsLeft - 1
    /\ CanRLock(smu)
    /\ spc' = "returned"
    /\ sret' = IF ~srv.running THEN "nil" ELSE "failed to accept connection"
    /\ UNCHANGED <<file, store, fresh, clock, rotLog, provVars, mu, pc, hnd, ret, readerVars,
                   budget, committed, allOk, srv, sock, ctxDone, wpc, stopCalled, apiVars,
                   connVars, jwtVars>>

(***************************************************************************)
(* IsRunning and GetAddress, called from goroutines of the server's owner. *)
(***************************************************************************)
\* IsRunning(), under s.mu.RLock()
IsRunning(s) == s.running

\* GetAddress(), under s.mu.RLock(): listener.Addr().String() once s.listener is set
GetAddress(s) == IF s.listener # "nil" THEN "bound" ELSE s.address

\* a goroutine calls IsRunning() or GetAddress()
CallInspect(i, op) ==
    /\ spc # "none"
    /\ ipc[i] = "idle"
    /\ ipc' = [ipc EXCEPT ![i] = "rlock"]
    /\ ires' = [ires EXCEPT ![i].done = FALSE, ![i].op = op]
    /\ UNCHANGED <<storeVars, provVars, mu, pc, hnd, ret, readerVars, budget, committed, allOk,
                   srv, sock, spc, sret, ctxDone, wpc, stopCalled, smu, connVars, jwtVars>>

\* s.mu.RLock()
SRLock(i) ==
    /\ ipc[i] = "rlock"
    /\ CanRLock(smu)
    /\ smu' = [smu EXCEPT !.readers = @ \cup {i}]
    /\ ipc' = [ipc EXCEPT ![i] = "read"]
    /\ UNCHANGED <<storeVars, provVars, mu, pc, hnd, ret, readerVars, budget, committed, allOk,
                   srv, sock, spc, sret, ctxDone, wpc, stopCalled, ires, connVars, jwtVars>>

\* the read of s.running, or of s.listener and s.address, the return and the deferred RUnlock
InspectReturn(i) ==
    /\ ipc[i] = "read"
    /\ smu' = [smu EXCEPT !.readers = @ \ {i}]
    /\ ires' = [ires EXCEPT ![i] =
                  IF ires[i].op = "IsRunning"
                  THEN [@ EXCEPT !.done = TRUE, !.running = IsRunning(srv)]
                  ELSE [@ EXCEPT !.done = TRUE, !.address = GetAddress(srv)]]
    /\ ipc' = [ipc EXCEPT ![i] = "idle"]
    /\ UNCHANGED <<storeVars, provVars, mu, pc, hnd, ret, readerVars, budget, committed, allOk,
                   srv, sock, spc, sret, ctxDone, wpc, stopCalled, connVars, jwtVars>>

Inspector(i) ==
    \/ CallInspect(i, "IsRunning")
    \/ CallInspect(i, "GetAddress")
    \/ SRLock(i)
    \/ InspectReturn(i)

\* server.Start(ctx) up to its accept loop
ServerStart ==
    \/ StartEntry
    \/ StartListen
    \/ StartBind

\* the ways out of the accept loop
ServerStop ==
    \/ ContextWatcher
    \/ AcceptError

(***************************************************************************)
(* A TCPRotationServer used on its own: created with an injected handler,  *)
(* Start(ctx) launched in a goroutine, Stop() called by its owner.         *)
(***************************************************************************)
\* variant of NewTCPRotationServer: the handler not checked
NewTCPRotationServerUnchecked(address, handler) ==
    [err |-> "", server |-> [running |-> FALSE, listener |-> "nil", address |-> address]]

\* NewTCPRotationServer(address, handler): [err, server]
NewTCPRotationServer(address, handler) ==
    IF handler = "nil"
    THEN [err |-> "rotation handler cannot be nil", server |-> "nil"]
    ELSE [err |-> "", server |-> [running |-> FALSE, listener |-> "nil", address |-> address]]

\* server, err := NewTCPRotationServer(addr, handler); on success, go server.Start(ctx)
NewServer(handler) ==
    /\ prov = "none"
    /\ spc = "none"
    /\ LET r == NewTCPRotationServer("configured", handler) IN
       /\ lastErr' = r.err
       /\ IF r.err # ""
          THEN UNCHANGED <<srv, spc>>
          ELSE /\ srv' = r.server
               /\ spc' = "entry"
    /\ UNCHANGED <<storeVars, prov, maxDeprecated, fromFile, mu, pc, hnd, ret, readerVars,
                   budget, committed, allOk, sock, sret, ctxDone, wpc, stopCalled,
                   apiVars, connVars, jwtVars>>

\* server.Stop(), called by the owner of the server
Stop ==
    /\ spc # "none"
    /\ CanLock(smu)
    /\ srv' = Stopped(srv)
    /\ sock' = StoppedSocket(srv, sock)
    /\ stopCalled' = (stopCalled \/ StartBegun)
    /\ UNCHANGED <<storeVars, provVars, mu, pc, hnd, ret, readerVars, budget, committed,
                   allOk, spc, sret, ctxDone, wpc, apiVars, connVars, jwtVars>>

\* the owner cancels the context it passed to Start
CancelContext ==
    /\ spc # "none"
    /\ ~ctxDone
    /\ ctxDone' = TRUE
    /\ UNCHANGED <<storeVars, provVars, mu, pc, hnd, ret, readerVars, budget, committed,
                   allOk, srv, sock, spc, sret, wpc, stopCalled, apiVars, connVars, jwtVars>>

(***************************************************************************)
(* Lines on the wire.  A line is the text between two newlines: kind "json" *)
(* is an object {"action": text}, kind "raw" is text that is no JSON       *)
(* document, kind "eof" marks the client closing its side.                 *)
(***************************************************************************)
JsonLine(action) == [kind |-> "json", text |-> action, size |-> 20]
RawLine(text) == [kind |-> "raw", text |-> text, size |-> 8]
\* the same line padded with blanks beyond the scanner's buffer
Padded(line) == [line EXCEPT !.size = MaxScanTokenSize]
EOF == [kind |-> "eof", text |-> "", size |-> 0]

\* the lines a client writes
Lines ==
    {JsonLine("rotate"), JsonLine("ROTATE"), RawLine("rotate"), RawLine("Rotate"),
     JsonLine("status"), JsonLine(""), RawLine("not json"), RawLine(""),
     Padded(JsonLine("rotate")), Padded(RawLine("not json")), Padded(JsonLine("status"))}

\* strings.ToLower, on the texts of Lines
ToLower(t) == IF t \in {"rotate", "ROTATE", "Rotate"} THEN "rotate" ELSE t

\* strings.EqualFold
EqualFold(a, b) == ToLower(a) = ToLower(b)

\* bufio.Scanner gives up (ErrTooLong) on a line that does not fit its buffer with its newline
TooLong(line) == line.size + 1 > MaxScanTokenSize

\* json.Unmarshal([]byte(line), &cmd): [err, action]
UnmarshalCommand(line) ==
    IF line.kind = "json" THEN [err |-> FALSE, action |-> line.text]
    ELSE [err |-> TRUE, action |-> ""]

\* whether handleConnection and handleCommand take the line to s.handler()
IsRotate(line) ==
    LET u == UnmarshalCommand(line) IN
    IF u.err THEN EqualFold(line.text, "rotate") ELSE ToLower(u.action) = "rotate"

InvalidFormat ==
    [success |-> FALSE, encrypted_data |-> Empty, error |-> <<"Invalid command format", "">>]

\* handleCommand, default case
UnknownCommand(action) ==
    [success |-> FALSE, encrypted_data |-> Empty, error |-> <<"Unknown command: ", action>>]

\* handleCommand, case "rotate": the response built from what s.handler() returned
RotateResponse(r) ==
    IF r.err # ""
    THEN [success |-> FALSE, encrypted_data |-> Empty, error |-> <<r.err, "">>]
    ELSE [success |-> TRUE, encrypted_data |-> r.data, error |-> NoError]

\* the client has closed its side
HungUp(c) == inbox[c] # <<>> /\ inbox[c][Len(inbox[c])] = EOF

\* the client writes one line
ClientSend(c, line) ==
    /\ pc[c] \notin {"free", "closed"}
    /\ ~HungUp(c)
    /\ sent[c] < MaxLines
    /\ IsRotate(line) => budget > 0
    /\ budget' = IF IsRotate(line) THEN budget - 1 ELSE budget
    /\ sent' = [sent EXCEPT ![c] = @ + 1]
    /\ inbox' = [inbox EXCEPT ![c] = Append(@, line)]
    /\ UNCHANGED <<storeVars, provVars, mu, pc, hnd, ret, readerVars, committed, allOk,
                   serverVars, cmd, served, jwtVars>>

\* the client closes the connection
ClientClose(c) ==
    /\ pc[c] \notin {"free", "closed"}
    /\ ~HungUp(c)
    /\ inbox' = [inbox EXCEPT ![c] = Append(@, EOF)]
    /\ UNCHANGED <<storeVars, provVars, mu, pc, hnd, ret, readerVars, budget, committed, allOk,
                   serverVars, sent, cmd, served, jwtVars>>

(***************************************************************************)
(* handleConnection: from scanner.Scan() to the call of s.handler() or to  *)
(* the response in hand.                                                   *)
(***************************************************************************)
Scan(c) ==
    /\ pc[c] = "scan"
    /\ inbox[c] # <<>>
    /\ LET line == Head(inbox[c])
           u == UnmarshalCommand(line)
       IN /\ inbox' = [inbox EXCEPT ![c] = Tail(@)]
          /\ IF line = EOF \/ TooLong(line)
             THEN \* scanner.Scan() is false; the deferred conn.Close()
                  /\ pc' = [pc EXCEPT ![c] = "closed"]
                  /\ UNCHANGED <<cmd, hnd>>
             ELSE IF line.kind = "raw" /\ line.text = ""
             THEN \* continue
                  /\ UNCHANGED <<pc, cmd, hnd>>
             ELSE IF u.err /\ ~EqualFold(line.text, "rotate")
             THEN /\ cmd' = [cmd EXCEPT ![c] = [line |-> line, calls |-> 0,
                                                resp |-> InvalidFormat]]
                  /\ pc' = [pc EXCEPT ![c] = "respond"]
                  /\ UNCHANGED hnd
             ELSE LET action == IF u.err THEN "rotate" ELSE u.action IN
                  IF ToLower(action) = "rotate"
                  THEN /\ cmd' = [cmd EXCEPT ![c] = [line |-> line, calls |-> 1,
                                                     resp |-> ZeroResponse]]
                       /\ hnd' = [hnd EXCEPT ![c] = ZeroFrame]
                       /\ pc' = [pc EXCEPT ![c] = "lock"]
                  ELSE /\ cmd' = [cmd EXCEPT ![c] = [line |-> line, calls |-> 0,
                                                     resp |-> UnknownCommand(action)]]
                       /\ pc' = [pc EXCEPT ![c] = "respond"]
                       /\ UNCHANGED hnd
    /\ UNCHANGED <<storeVars, provVars, mu, ret, readerVars, budget, committed, allOk,
                   serverVars, sent, served, jwtVars>>

\* encoder.Encode(response): written, or failed on a connection the client has closed
Respond(c) ==
    /\ pc[c] = "respond"
    /\ LET resp == IF cmd[c].calls > 0 THEN RotateResponse(ret[c]) ELSE cmd[c].resp IN
       \/ /\ served' = [served EXCEPT ![c] =
                          Append(@, [line |-> cmd[c].line, calls |-> cmd[c].calls,
                                     resp |-> resp])]
          /\ pc' = [pc EXCEPT ![c] = "scan"]
       \/ /\ HungUp(c)
          /\ pc' = [pc EXCEPT ![c] = "closed"]
          /\ UNCHANGED served
    /\ cmd' = [cmd EXCEPT ![c] = ZeroCmd]
    /\ UNCHANGED <<storeVars, provVars, mu, hnd, ret, readerVars, budget, committed, allOk,
                   serverVars, inbox, sent, jwtVars>>

Connection(c) ==
    \/ Accept(c)
    \/ ClientClose(c)
    \/ Scan(c)
    \/ Handler(c)
    \/ Respond(c)

(***************************************************************************)
(* JWTService (package auth).                                              *)
(***************************************************************************)
\* NewJWTService(provider, expiry, log): secret, err := provider.GetSecret()
NewJWTService ==
    /\ prov \in {"open", "closed"}
    /\ ~jwt.made
    /\ CanRLock(mu)
    /\ store.current.secret # Empty
    /\ jwt' = [made |-> TRUE, secret |-> store.current.secret]
    /\ UNCHANGED <<storeVars, provVars, mu, pc, hnd, ret, readerVars, budget, committed, allOk,
                   serverVars, connVars, token>>

\* GenerateToken: token.SignedString(j.secret)
GenerateToken ==
    /\ jwt.made
    /\ prov \in {"open", "closed"}
    /\ CanRLock(mu)
    /\ token' = [issued |-> TRUE, key |-> jwt.secret, live |-> store.current.secret]
    /\ UNCHANGED <<storeVars, provVars, mu, pc, hnd, ret, readerVars, budget, committed, allOk,
                   serverVars, connVars, jwt>>

\* ValidateToken: the key function returns j.secret; valid when the signature verifies under it
ValidateToken(tokenKey) == jwt.made /\ tokenKey = jwt.secret

(***************************************************************************)
(* The provider under direct calls: construction, rotations called by test  *)
(* goroutines, concurrent readers, Close and reconstruction.               *)
(***************************************************************************)
Next ==
    \/ \E opt \in MaxDeprecatedOpts : NewFileSecretProvider(opt)
    \/ Close
    \/ \E p \in Directs : CallRotate(p)
    \/ \E p \in Directs : Handler(p)
    \/ \E r \in Readers : Reader(r)

Spec == Init /\ [][Next]_vars


(***************************************************************************)
(* The running server: one fresh provider, clients that connect, write     *)
(* lines and hang up, and the connection handlers that serve them.         *)
(***************************************************************************)
NextTCP ==
    \/ NewFileSecretProvider(0) /\ prov = "none"
    \/ Close
    \/ ServerStart
    \/ ServerStop
    \/ \E c \in Conns : Connection(c)
    \/ \E c \in Conns, line \in Lines : ClientSend(c, line)

SpecTCP == Init /\ [][NextTCP]_vars

(***************************************************************************)
(* Five clients, one rotate command each, no failure of the OS.            *)
(***************************************************************************)
InitFive ==
    /\ InitProcess
    /\ budget = Cardinality(FiveClients)
    /\ faultsLeft = 0

NextFive ==
    \/ NewFileSecretProvider(0) /\ prov = "none"
    \/ ServerStart
    \/ \E c \in FiveClients : Accept(c) \/ Scan(c) \/ Handler(c) \/ Respond(c)
    \/ \E c \in FiveClients : sent[c] = 0 /\ ClientSend(c, JsonLine("rotate"))

SpecFive == InitFive /\ [][NextFive]_vars

(***************************************************************************)
(* The JWT service on top of a provider that rotates.                      *)
(***************************************************************************)
NextJWT ==
    \/ \E opt \in MaxDeprecatedOpts : NewFileSecretProvider(opt) /\ prov = "none"
    \/ \E p \in Directs : CallRotate(p)
    \/ \E p \in Directs : Handler(p)
    \/ NewJWTService
    \/ GenerateToken

SpecJWT == Init /\ [][NextJWT]_vars


(***************************************************************************)
(* One caller rotating a fresh provider past every eviction limit, the     *)
(* default one included.                                                   *)
(***************************************************************************)
InitEvict ==
    /\ InitProcess
    /\ budget = DefaultMaxDeprecated + 2
    /\ faultsLeft = MaxFaults

NextEvict ==
    \/ \E opt \in MaxDeprecatedOpts : NewFileSecretProvider(opt) /\ prov = "none"
    \/ CallRotate(11)
    \/ Handler(11)

SpecEvict == InitEvict /\ [][NextEvict]_vars

(***************************************************************************)
(* A server on its own, its clients sending lines that need no handler:    *)
(* stopped by Stop() calls and cancellation, or by cancellation alone.     *)
(***************************************************************************)
Handlers == {"nil", "stub"}

InitServer ==
    /\ InitProcess
    /\ budget = 0
    /\ faultsLeft = 0

ServerClients ==
    \/ \E c \in Conns : Accept(c) \/ ClientClose(c) \/ Scan(c) \/ Respond(c)
    \/ \E c \in Conns, line \in {l \in Lines : ~IsRotate(l)} : ClientSend(c, line)

NextServer ==
    \/ \E h \in Handlers : NewServer(h)
    \/ ServerStart
    \/ ServerStop
    \/ Stop
    \/ CancelContext
    \/ ServerClients

SpecServer == InitServer /\ [][NextServer]_vars

NextCancel ==
    \/ \E h \in Handlers : NewServer(h)
    \/ ServerStart
    \/ ServerStop
    \/ CancelContext
    \/ ServerClients

\* the goroutines running Start and the context watcher are scheduled
SpecCancel ==
    InitServer /\ [][NextCancel]_vars /\ WF_vars(ServerStart) /\ WF_vars(ServerStop)

(***************************************************************************)
(* A process started on whatever it finds at the file path: no file, a     *)
(* store written earlier (with the mode it was given by whoever put it     *)
(* there), or a file that cannot be loaded.                                *)
(***************************************************************************)
\* a store written by an earlier process: a current entry and one deprecated entry
FoundStore ==
    [current |-> SecretEntry(<<"uuid", -1>>, Base64Encode(-1), TimeNow(-1)),
     deprecated |-> <<[SecretEntry(<<"uuid", -2>>, Base64Encode(-2), TimeNow(-3))
                         EXCEPT !.rotated_at = <<TimeNow(-1)>>]>>]

\* a file that parses and holds no current secret
NoCurrentStore == ZeroStore

FoundFiles ==
    {NoFile,
     [exists |-> TRUE, data |-> MarshalStore(FoundStore), mode |-> OwnerOnly],
     [exists |-> TRUE, data |-> MarshalStore(FoundStore), mode |-> WorldReadable],
     [exists |-> TRUE, data |-> MarshalStore(FoundStore), mode |-> NoAccess],
     [exists |-> TRUE, data |-> Truncated, mode |-> OwnerOnly],
     [exists |-> TRUE, data |-> MarshalStore(NoCurrentStore), mode |-> OwnerOnly]}

Paths == {"", "secrets.json"}

InitFiles ==
    /\ InitMemory
    /\ file \in FoundFiles
    /\ budget = MaxRotations
    /\ faultsLeft = MaxFaults

NextFiles ==
    \/ \E path \in Paths, opt \in MaxDeprecatedOpts : NewFileSecretProviderAt(path, opt)
    \/ NewServer("nil")
    \/ Close
    \/ ServerStart
    \/ CallRotate(11)
    \/ Handler(11)

SpecFiles == InitFiles /\ [][NextFiles]_vars

\* the same process with a goroutine reading the secret, the server left out
NextRead ==
    \/ \E opt \in MaxDeprecatedOpts : NewFileSecretProviderAt("secrets.json", opt)
    \/ CallRotate(11)
    \/ Handler(11)
    \/ Reader(21)

SpecRead == InitFiles /\ [][NextRead]_vars

(***************************************************************************)
(* Every user of the two locks at once: a connection rotating, a reader of *)
(* the store, a caller of IsRunning and GetAddress, the goroutine running  *)
(* Start, the context watcher and Close.                                   *)
(***************************************************************************)
InitLocks ==
    /\ InitProcess
    /\ budget = 1
    /\ faultsLeft = 0

NextLocks ==
    \/ NewFileSecretProvider(0) /\ prov = "none"
    \/ Close
    \/ ServerStart
    \/ ServerStop
    \/ \E c \in Conns : Accept(c) \/ Scan(c) \/ Handler(c) \/ Respond(c)
    \/ \E c \in Conns : ClientSend(c, JsonLine("rotate"))
    \/ Reader(21)
    \/ Inspector(31)

\* what a goroutine does once it holds a lock, or needs no lock for
Running(p) ==
    \/ HGenerate(p)
    \/ HEncrypt(p)
    \/ HRetire(p)
    \/ HInstall(p)
    \/ HTrim(p)
    \/ HSave(p)
    \/ HReturn(p)

\* every goroutine is scheduled, and sync.RWMutex starves no caller: a blocked
\* Lock keeps new readers out, and an Unlock lets the blocked readers in
SpecLocks ==
    /\ InitLocks
    /\ [][NextLocks]_vars
    /\ \A p \in Conns : SF_vars(HLock(p)) /\ WF_vars(Running(p))
    /\ \A r \in Readers :
          /\ SF_vars(RLock(r))
          /\ WF_vars(GetSecretReturn(r) \/ GetAllCurrent(r) \/ GetAllReturn(r))
    /\ \A i \in Inspectors : SF_vars(SRLock(i)) /\ WF_vars(InspectReturn(i))
    /\ SF_vars(StartEntry)
    /\ SF_vars(StartBind)
    /\ SF_vars(ContextWatcher)

(***************************************************************************)
(* Two connections, each of which may send one rotate command or stay      *)
(* silent for ever, and a goroutine calling GetSecret.                     *)
(***************************************************************************)
IdleClients == {1, 2}

InitIdle ==
    /\ InitProcess
    /\ budget = Cardinality(IdleClients)
    /\ faultsLeft = MaxFaults

NextIdle ==
    \/ NewFileSecretProvider(0) /\ prov = "none"
    \/ ServerStart
    \/ \E c \in IdleClients : Accept(c) \/ Scan(c) \/ Handler(c) \/ Respond(c)
    \/ \E c \in IdleClients : sent[c] = 0 /\ ClientSend(c, JsonLine("rotate"))
    \/ CallRead(21, "GetSecret") \/ RLock(21) \/ GetSecretReturn(21)

\* the goroutines of the process are scheduled and sync.RWMutex starves no
\* caller; nothing makes a client write
SpecIdle ==
    /\ InitIdle
    /\ [][NextIdle]_vars
    /\ \A c \in IdleClients :
          /\ WF_vars(Scan(c))
          /\ SF_vars(HLock(c))
          /\ WF_vars(Running(c))
          /\ WF_vars(Respond(c))
    /\ SF_vars(RLock(21))
    /\ WF_vars(GetSecretReturn(21))

(***************************************************************************)
(* A process that rotates, stops at any point and is started again on the  *)
(* same file.                                                              *)
(***************************************************************************)
NextCrash ==
    \/ NewFileSecretProvider(0)
    \/ CallRotate(11)
    \/ Handler(11)
    \/ ProcessStops

SpecCrash == Init /\ [][NextCrash]_vars

(***************************************************************************)
(* Properties.                                                             *)
(***************************************************************************)
\* the elements of a sequence
Range(q) == {q[i] : i \in 1..Len(q)}

\* the secrets retired by the rotations of this provider, in the order they took effect
Retired == [i \in 1..Len(rotLog) |-> rotLog[i].old]

\* C1: every handleRotateCommand call that returns no error leaves a current
\* secret different from the one before the call, and the ciphertext it returns
\* decrypts under the secret before the call to exactly the secret after it.
C1_RotationRecoverable ==
    \A p \in Callers :
        (ret[p].n > 0 /\ ret[p].err = "") =>
            /\ ret[p].post # ret[p].pre
            /\ DecryptSecret(ret[p].data, ret[p].pre) = [err |-> "", secret |-> ret[p].post]

\* a rotation of a store loaded from a file has returned its ciphertext
C1_Witness ==
    \E p \in Directs :
        /\ ret[p].n > 0
        /\ ret[p].err = ""
        /\ fromFile
        /\ store.current.secret = ret[p].post

\* C2: concurrent rotations take effect in one order: each one's ciphertext is
\* sealed under the secret that was current just before it took effect, which is
\* the new secret of the rotation before it, and no two rotations retire the
\* same secret.
C2_RotationsSerialized ==
    \A i \in 1..Len(rotLog) :
        /\ DecryptSecret(rotLog[i].data, rotLog[i].old) = [err |-> "", secret |-> rotLog[i].new]
        /\ i > 1 => rotLog[i].old = rotLog[i - 1].new
        /\ \A j \in 1..Len(rotLog) : j # i => rotLog[j].old # rotLog[i].old

\* two callers have rotated one after the other while the first waits to rotate again
C2_Witness ==
    \E p, q \in Directs :
        /\ p # q
        /\ Len(rotLog) >= 2
        /\ rotLog[Len(rotLog) - 1].by = p
        /\ rotLog[Len(rotLog)].by = q
        /\ pc[q] = "trim"
        /\ pc[p] = "lock"

\* C3: what GetSecret and GetAllSecrets return during rotations is the content
\* of one store state between rotations: GetSecret returns a non-empty current
\* secret of such a state, GetAllSecrets returns the (current, deprecated) pair
\* of one such state, in which the current secret is not among the deprecated.
C3_ReadersSeeCommittedStore ==
    \A r \in Readers :
        rres[r].done =>
            IF rres[r].op = "GetSecret"
            THEN /\ rres[r].err = ""
                 /\ rres[r].current # Empty
                 /\ \E v \in committed : v.current = rres[r].current
            ELSE /\ [current |-> rres[r].current, deprecated |-> rres[r].deprecated]
                        \in committed
                 /\ rres[r].current \notin Range(rres[r].deprecated)

\* GetAllSecrets holds the read lock, its pair half read, while a rotation waits
C3_Witness ==
    \E r \in Readers, p \in Directs :
        /\ rpc[r] = "ga_deprecated"
        /\ pc[p] = "lock"
        /\ Len(rotLog) >= 1
        /\ rres[r].current = store.current.secret

\* C4: whenever no rotation is in progress on a constructed provider, the
\* store holds at most maxDeprecated deprecated entries.
C4_DeprecatedBounded ==
    (prov \in {"open", "closed"} /\ mu.writer = NoOne) =>
        Len(store.deprecated) <= maxDeprecated

\* C5: on a provider that created its store, once more rotations have taken
\* effect than maxDeprecated, GetAllSecrets reports exactly maxDeprecated
\* deprecated secrets: the most recently retired ones, oldest first.
C5_KeepsMostRecentlyRetired ==
    (prov \in {"open", "closed"} /\ ~fromFile /\ mu.writer = NoOne
        /\ Len(rotLog) > maxDeprecated) =>
        /\ Len(View(store).deprecated) = maxDeprecated
        /\ View(store).deprecated =
               SubSeq(Retired, Len(rotLog) - maxDeprecated + 1, Len(rotLog))

\* six rotations of a provider with the default limit have evicted the first secret
C5_Witness ==
    /\ prov = "open"
    /\ ~fromFile
    /\ mu.writer = NoOne
    /\ maxDeprecated = DefaultMaxDeprecated
    /\ Len(rotLog) = DefaultMaxDeprecated + 1
    /\ allOk

\* C6: a provider constructed on the file of a closed provider whose rotations
\* all succeeded reports the current secret and the deprecated list, in order,
\* that the closed provider held.
C6_PersistenceRoundTrip ==
    [][(prov = "closed" /\ prov' = "open" /\ allOk) => View(store') = View(store)]_vars

\* a provider loaded from the file of an earlier provider that rotated
C6_Witness ==
    /\ prov = "open"
    /\ fromFile
    /\ rotLog = <<>>
    /\ Len(store.deprecated) >= 1

\* the five clients have each read the response to their command
AllFiveAnswered == \A c \in FiveClients : Len(served[c]) = 1

\* the secrets GetAllSecrets accounts for
Accounted == {store.current.secret} \cup Range(View(store).deprecated)

\* C7, as claimed: after five simultaneous rotate commands every response is
\* a success and GetAllSecrets accounts for five distinct secrets, one current
\* and four deprecated.
C7_FiveSecretsAccounted ==
    AllFiveAnswered =>
        /\ \A c \in FiveClients : served[c][1].resp.success
        /\ Len(store.deprecated) = 4
        /\ Cardinality(Accounted) = 5

\* C7, amended: with no failure of the OS, every response to the five
\* simultaneous rotate commands is a success, and once all five are answered
\* GetAllSecrets accounts for six distinct secrets, one current and five
\* deprecated: the initial secret and the plaintexts of the five responses,
\* none lost and none twice.
C7_SixSecretsAccounted ==
    /\ \A c \in FiveClients : Len(served[c]) = 1 => served[c][1].resp.success
    /\ AllFiveAnswered =>
          /\ Len(store.deprecated) = 5
          /\ Cardinality(Accounted) = 6
          /\ \A c \in FiveClients : \E s \in Accounted :
                \E k \in Accounted :
                    DecryptSecret(served[c][1].resp.encrypted_data, k) =
                        [err |-> "", secret |-> s]

\* the five commands have all been answered, their rotations having taken
\* effect in the reverse of the order of the clients
C7_Witness ==
    /\ AllFiveAnswered
    /\ \A c \in FiveClients : served[c][1].resp.success
    /\ Len(rotLog) = 5
    /\ \A i \in 1..5 : rotLog[i].by = 6 - i

\* C8: every token is signed with the secret that GetSecret() returns at the
\* time of the GenerateToken call.
C8_TokenSignedWithLiveSecret ==
    token.issued => token.key = token.live

\* C9: a line whose action is rotate is taken to the handler, once, and the
\* response written for it carries what the handler returned.
C9_RotateLineServed ==
    [][\A c \in Conns :
         /\ (pc[c] = "scan" /\ inbox[c] # <<>> /\ inbox'[c] = Tail(inbox[c])
                /\ IsRotate(Head(inbox[c])))
              => (pc'[c] = "lock" /\ cmd'[c].calls = 1)
         /\ (pc[c] = "respond" /\ cmd[c].calls = 1 /\ Len(served'[c]) = Len(served[c]) + 1)
              => LET e == served'[c][Len(served'[c])] IN
                 /\ e.line = cmd[c].line
                 /\ e.calls = 1
                 /\ e.resp = IF ret[c].err = ""
                             THEN [success |-> TRUE, encrypted_data |-> ret[c].data,
                                   error |-> NoError]
                             ELSE [success |-> FALSE, encrypted_data |-> Empty,
                                   error |-> <<ret[c].err, "">>]
      ]_vars

\* C10: a non-blank line that is neither a JSON command nor the word rotate
\* gets the response "Invalid command format" without a handler call, and the
\* connection goes on being served.
C10_InvalidLineAnswered ==
    [][\A c \in Conns :
         (pc[c] = "scan" /\ inbox[c] # <<>> /\ inbox'[c] = Tail(inbox[c])
             /\ Head(inbox[c]).kind = "raw" /\ Head(inbox[c]).text # ""
             /\ ~EqualFold(Head(inbox[c]).text, "rotate"))
           => /\ pc'[c] = "respond"
              /\ cmd'[c].resp = InvalidFormat
              /\ cmd'[c].calls = 0
      ]_vars

\* C11: a JSON command whose action is not rotate in any letter case, the
\* empty action included, is answered {success:false, error:"Unknown command: "
\* followed by the action as sent} with no encrypted_data, without a handler
\* call, and leaves the store, the file and the connection as they were.
C11_UnknownActionAnswered ==
    [][\A c \in Conns :
         /\ (pc[c] = "scan" /\ inbox[c] # <<>> /\ inbox'[c] = Tail(inbox[c])
                /\ Head(inbox[c]).kind = "json"
                /\ ~EqualFold(Head(inbox[c]).text, "rotate"))
              => /\ pc'[c] = "respond"
                 /\ cmd'[c].calls = 0
                 /\ cmd'[c].resp = [success |-> FALSE, encrypted_data |-> Empty,
                                    error |-> <<"Unknown command: ", Head(inbox[c]).text>>]
                 /\ store' = store
                 /\ file' = file
         /\ (pc[c] = "respond" /\ cmd[c].calls = 0 /\ cmd[c].line.kind = "json"
                /\ Len(served'[c]) = Len(served[c]) + 1)
              => /\ served'[c][Len(served'[c])].resp = cmd[c].resp
                 /\ pc'[c] = "scan"
      ]_vars

\* C12: once a Stop() call has returned after Start() began, the server
\* is not running, no listening socket is open, and Start(), when it has
\* returned, has returned nil; a step that does not move Start() on a server
\* that is not running (a further Stop()) changes neither server nor socket.
C12_StopStopsServer ==
    /\ [](stopCalled =>
            /\ ~srv.running
            /\ sock # "open"
            /\ spc = "returned" => sret = "nil")
    /\ [][(~srv.running /\ spc' = spc) => (srv' = srv /\ sock' = sock)]_vars

\* C13: once Close() has been called and the goroutine waiting on the
\* context has made its Stop() call, no listening socket is left open (so
\* the accept loop ends and no connection is accepted), and a further
\* Close() on the stopped server changes nothing.
C13_CloseReleasesListener ==
    /\ []((prov = "closed" /\ wpc = "done") => sock # "open")
    /\ [][(prov = "closed" /\ prov' = "closed" /\ ~srv.running /\ spc' = spc)
             => (srv' = srv /\ sock' = sock)]_vars

C15_SavedFileOwnerOnly ==
    [][(file' # file /\ file'.exists /\ file'.data = MarshalStore(store'))
          => file'.mode = OwnerOnly]_vars

\* the current secret and the deprecated secrets written in a store document
FileView(data) ==
    [current |-> data.current.secret,
     deprecated |-> [i \in 1..Len(data.deprecated) |-> data.deprecated[i].secret]]

\* C16: a constructor call that returns a provider, where no file exists,
\* leaves a store with one freshly generated non-empty current secret and no
\* deprecated entry, already written to the file; where a file holds a store,
\* it yields that file's current secret and deprecated list, draws no
\* entropy and leaves the file as it was.
C16_LoadOrInitialize ==
    [][(prov \in {"none", "closed"} /\ prov' = "open") =>
          IF ~file.exists
          THEN /\ store'.current.secret # Empty
               /\ fresh' > fresh
               /\ \A v \in committed : store'.current.secret # v.current
               /\ store'.deprecated = <<>>
               /\ file'.exists
               /\ file'.data # Truncated
               /\ FileView(file'.data) = View(store')
          ELSE /\ View(store') = FileView(file.data)
               /\ fresh' = fresh
               /\ file' = file
      ]_vars

\* a provider constructed on the store another process left, both entries loaded
C16_Witness ==
    /\ prov = "open"
    /\ fromFile
    /\ fresh = 0
    /\ View(store) = View(FoundStore)

\* a file that exists and cannot be read, cannot be parsed, or has no current secret
BadFile(f) ==
    /\ f.exists
    /\ \/ f.mode = NoAccess
       \/ f.data = Truncated
       \/ f.data # Truncated /\ f.data.current.secret = Empty

\* C17: while the file exists and cannot be read, cannot be parsed or holds
\* an empty current secret, no constructor call returns a provider: the call
\* fails with the load error (not the outcome for an absent file), draws no
\* entropy, leaves the file unchanged and starts no server.
C17_BadFileFailsLoad ==
    [][(prov \in {"none", "closed"} /\ Quiescent /\ BadFile(file)) =>
          /\ prov' # "open"
          /\ file' = file
          /\ fresh' = fresh
          /\ ((prov' # prov \/ lastErr' # lastErr)
                 /\ lastErr' \notin {"file path cannot be empty",
                                     "rotation handler cannot be nil"})
                => /\ prov' = "none"
                   /\ lastErr' = "failed to load secrets file"
                   /\ spc' = "none"
                   /\ sock' = "none"
      ]_vars

\* the constructor has failed on a file it could not read
C17_Witness ==
    /\ prov = "none"
    /\ lastErr = "failed to load secrets file"
    /\ file.exists
    /\ file.mode = NoAccess

\* C18: an empty file path is refused with 'file path cannot be empty' and
\* a nil handler with an error and no server; a call failing so reads and
\* writes no file, draws no entropy and starts no server.
C18_ConfigurationFailsFast ==
    /\ [](/\ CheckOptions("") = "file path cannot be empty"
          /\ NewTCPRotationServer("configured", "nil").err # ""
          /\ NewTCPRotationServer("configured", "nil").server = "nil"
          /\ lastErr = "rotation handler cannot be nil" => (spc = "none" /\ sock = "none"))
    /\ [][lastErr' = "file path cannot be empty" =>
             /\ prov' = "none"
             /\ file' = file
             /\ fresh' = fresh
             /\ spc' = "none"
             /\ sock' = "none"]_vars

\* an empty path was refused where a loadable file exists, the file untouched
C18_Witness ==
    /\ lastErr = "file path cannot be empty"
    /\ prov = "none"
    /\ file.exists
    /\ ~BadFile(file)

\* C19: from the moment a provider is constructed, through successful and
\* failed rotations, the current entry of the store has a non-empty secret,
\* and every GetSecret() call returns a non-empty secret and no error.
C19_CurrentNeverEmpty ==
    /\ prov \in {"open", "closed"} => store.current.secret # Empty
    /\ \A r \in Readers :
          (rres[r].done /\ rres[r].op = "GetSecret") =>
              (rres[r].err = "" /\ rres[r].current # Empty)

\* GetSecret() has returned the current secret after a rotation failed
C19_Witness ==
    \E r \in Readers :
        /\ rres[r].done
        /\ rres[r].op = "GetSecret"
        /\ ~allOk
        /\ rres[r].current = store.current.secret

\* the entries of a store
AllEntries(st) == {st.current} \cup Range(st.deprecated)

\* the instant in an entry's rotated_at, <<>> when it is unset
Stamp(e) == IF e.rotated_at = <<>> THEN <<>> ELSE <<e.rotated_at[1].wall>>

\* outside the write lock the current entry has rotated_at unset and every
\* deprecated entry has it set, and so has every store document in the file
RotatedAtShape ==
    /\ (prov \in {"open", "closed"} /\ mu.writer = NoOne) =>
          /\ store.current.rotated_at = <<>>
          /\ \A i \in 1..Len(store.deprecated) : store.deprecated[i].rotated_at # <<>>
    /\ (file.exists /\ file.data # Truncated) =>
          /\ "rotated_at" \notin DOMAIN file.data.current
          /\ \A i \in 1..Len(file.data.deprecated) :
                "rotated_at" \in DOMAIN file.data.deprecated[i]

\* a step keeps the rotated_at of every entry that has one
StampsKept ==
    \A e \in AllEntries(store), f \in AllEntries(store') :
        (e.id = f.id /\ Stamp(e) # <<>>) => Stamp(f) = Stamp(e)

ChangesUnderLock ==
    (prov' = prov /\ store'.current.secret # store.current.secret) => mu.writer # NoOne

\* caller p returns from a handleRotateCommand call that changed the current secret
ReturnsChanged(p) ==
    /\ pc[p] = "unlock"
    /\ ret'[p].n = ret[p].n + 1
    /\ store.current.secret # hnd[p].pre

\* what p hands back opens, under the secret that was current when p took the
\* lock, to the secret that is current now
HandsBackCurrent(p) ==
    /\ ret'[p].err = ""
    /\ DecryptSecret(ret'[p].data, hnd[p].pre) = [err |-> "", secret |-> store'.current.secret]

\* C21, as claimed: the current secret changes only inside rotation calls, and
\* every call that changed it returns a ciphertext which opens, under the
\* secret it replaced, to the secret now current.
C21_CurrentAlwaysHandedBack ==
    [][/\ ChangesUnderLock
       /\ \A p \in Callers : ReturnsChanged(p) => HandsBackCurrent(p)]_vars

\* C21, amended: the same, except for a call whose file write failed: it has
\* changed the current secret and returns the save error with no ciphertext.
C21_CurrentHandedBackUnlessSaveFailed ==
    [][/\ ChangesUnderLock
       /\ \A p \in Callers :
            ReturnsChanged(p) =>
                \/ HandsBackCurrent(p)
                \/ /\ ret'[p].err = "failed to save rotated secrets"
                   /\ ret'[p].data = Empty
                   /\ file.data # MarshalStore(store)]_vars

\* a connection whose first rotate command was answered with a ciphertext and
\* whose second changed the current secret and returned the save error
C21_Witness ==
    \E c \in Conns :
        /\ ret[c].n = 2
        /\ ret[c].err = "failed to save rotated secrets"
        /\ ret[c].post = store.current.secret
        /\ ret[c].post # ret[c].pre
        /\ Len(served[c]) >= 1
        /\ served[c][1].resp.success
        /\ DecryptSecret(served[c][1].resp.encrypted_data, rotLog[1].old).secret = ret[c].pre

\* p's saveToFile call returns an error
SaveFails(p) == pc[p] = "save" /\ pc'[p] = "unlock" /\ hnd'[p].err # ""

\* C22: when the file write of a rotation fails, the store in memory stays
\* mutated (the new secret current, the previous one in deprecated), the file
\* still holds the store as it was before the rotation, the call returns the
\* error with no ciphertext, and a TCP client is answered success:false
\* without encrypted_data.
C22_FailedSaveKeepsFile ==
    [][\A p \in Callers :
         /\ SaveFails(p) =>
               /\ store' = store
               /\ store.current.secret = hnd[p].newSecret
               /\ hnd[p].pre \in Range(View(store).deprecated)
               /\ file'.exists
               /\ file'.data # Truncated
               /\ file'.data.current.secret = hnd[p].pre
         /\ (pc[p] = "unlock" /\ hnd[p].err = "failed to save rotated secrets"
                /\ ret'[p].n = ret[p].n + 1) =>
               /\ ret'[p].err = "failed to save rotated secrets"
               /\ ret'[p].data = Empty
               /\ store' = store
               /\ file' = file
         /\ (p \in Conns /\ pc[p] = "respond" /\ cmd[p].calls = 1
                /\ ret[p].err = "failed to save rotated secrets"
                /\ Len(served'[p]) = Len(served[p]) + 1) =>
               LET e == served'[p][Len(served'[p])] IN
               /\ ~e.resp.success
               /\ e.resp.encrypted_data = Empty
               /\ e.resp.error = <<"failed to save rotated secrets", "">>
      ]_vars

\* the errors of a rotation that failed at secret generation or at encryption
AbortErrors == {"failed to generate new secret", "failed to encrypt new secret"}

\* p is inside handleRotateCommand before its first assignment to f.store, or
\* on its way out after secret generation or encryption failed
BeforeMutation(p) ==
    /\ mu.writer = p
    /\ \/ pc[p] \in {"gen", "enc"}
       \/ pc[p] = "unlock" /\ hnd[p].err \in AbortErrors

\* C23: a rotation in which secret generation or encryption fails goes
\* straight to its return, hands back the error and no ciphertext, and from
\* the moment it took the lock to its return no step changes the store in
\* memory (current entry, deprecated list, rotated_at stamps) or the file.
C23_AbortBeforeMutation ==
    [][\A p \in Callers :
         /\ BeforeMutation(p) => (store' = store /\ file' = file)
         /\ (pc[p] \in {"gen", "enc"} /\ hnd'[p].err # "") =>
               (pc'[p] = "unlock" /\ hnd'[p].err \in AbortErrors)
         /\ (pc[p] = "unlock" /\ hnd[p].err \in AbortErrors /\ ret'[p].n = ret[p].n + 1) =>
               /\ ret'[p].err = hnd[p].err
               /\ ret'[p].data = Empty
               /\ ret'[p].post = ret'[p].pre
      ]_vars

\* a rotation that failed at encryption has returned, after one that succeeded:
\* the store and the file are those the successful one left
C23_Witness ==
    \E p \in Directs :
        /\ ret[p].n >= 1
        /\ ret[p].err = "failed to encrypt new secret"
        /\ ret[p].post = ret[p].pre
        /\ mu.writer = NoOne
        /\ Len(rotLog) = 1
        /\ store.current.secret = rotLog[1].new
        /\ file.data = MarshalStore(store)

\* the locks a goroutine holds
Held(g) ==
    (IF mu.writer = g \/ g \in mu.readers THEN {"f.mu"} ELSE {})
        \cup (IF smu.writer = g \/ g \in smu.readers THEN {"s.mu"} ELSE {})

\* the locks a goroutine is waiting for
Awaited(g) ==
    (IF (g \in Callers /\ pc[g] = "lock") \/ (g \in Readers /\ rpc[g] = "rlock")
     THEN {"f.mu"} ELSE {})
        \cup (IF g \in Inspectors /\ ipc[g] = "rlock" THEN {"s.mu"} ELSE {})

\* C24: no call waits for a lock while it holds one, and every call waiting
\* for the store lock or for the server lock gets it: a rotation its write
\* lock, a reader its read lock, IsRunning and GetAddress their read lock,
\* Start and the context watcher's Stop the server's write lock.
C24_NoDeadlock ==
    /\ [](\A g \in Callers \cup Readers \cup Inspectors : Awaited(g) # {} => Held(g) = {})
    /\ \A p \in Conns : (pc[p] = "lock") ~> (mu.writer = p)
    /\ \A r \in Readers : (rpc[r] = "rlock") ~> (r \in mu.readers)
    /\ \A i \in Inspectors : (ipc[i] = "rlock") ~> (i \in smu.readers)
    /\ (spc = "entry") ~> (spc # "entry")
    /\ (spc = "bind") ~> (spc # "bind")
    /\ (wpc = "wait" /\ ctxDone) ~> (wpc = "done")

\* a rotation waits for the store lock a reader holds, while the context
\* watcher's Stop waits for the server lock a caller of GetAddress holds
C24_Witness ==
    /\ \E c \in Conns : pc[c] = "lock"
    /\ 21 \in mu.readers
    /\ ipc[31] = "read"
    /\ ires[31].op = "GetAddress"
    /\ wpc = "wait"
    /\ ctxDone

\* connection c takes a rotate command to s.handler()
Invokes(c) == pc[c] = "scan" /\ pc'[c] = "lock"

\* C25: once Close() (and the Stop() inside it) has returned, no connection
\* takes a command to the rotation handler any more, the connections accepted
\* before the stop included; the current secret changing only inside the
\* handler, it then stays what the calls already in progress make it.
C25_NoRotationAfterStop ==
    [][(prov = "closed" /\ prov' = "closed") => \A c \in Conns : ~Invokes(c)]_vars

\* where a goroutine stands between f.mu.Lock() and the deferred f.mu.Unlock()
InsideRotation == {"gen", "enc", "retire", "install", "trim", "save", "unlock"}

\* C26: a connection waiting for input or writing a response does not hold
\* the store lock, whose write side is held only by a goroutine between the
\* secret generation and the return that follows the file write; so, whatever
\* connections stay silent, a rotate command that has arrived on a connection
\* is answered and a GetSecret() call returns.
C26_IdleConnectionsHoldNoLock ==
    /\ [](\A p \in Callers : mu.writer = p <=> pc[p] \in InsideRotation)
    /\ [](\A c \in ConnIds : c \notin mu.readers)
    /\ \A c \in IdleClients :
          (pc[c] = "scan" /\ inbox[c] # <<>>) ~> (Len(served[c]) = 1)
    /\ \A r \in Readers : (rpc[r] = "rlock") ~> rres[r].done

\* connection 2 has been accepted and has never written; connection 1 has had
\* its rotate command answered, and GetSecret has returned the new secret
C26_Witness ==
    /\ pc[2] = "scan"
    /\ sent[2] = 0
    /\ Len(served[1]) = 1
    /\ served[1][1].resp.success
    /\ rres[21].done
    /\ rres[21].current = rotLog[1].new

\* the callers whose handleRotateCommand call is in progress
Rotating == {p \in Callers : hnd[p].pre # Empty}

\* C27: when the process stops during a rotation, before, during or after
\* the file write, every earlier rotation having returned no error, the
\* file it leaves is a complete store whose current
\* secret is the one from before the rotation or the one the rotation
\* installed, and the provider constructed next on that file is constructed
\* from it.
C27_FileAlwaysLoadable ==
    [][/\ \A p \in Rotating :
            (prov = "open" /\ prov' = "exited" /\ allOk) =>
                LET l == loadFromFile(file') IN
                /\ l.err = ""
                /\ l.store.current.secret \in {hnd[p].pre, store.current.secret}
       /\ (prov = "exited" /\ prov' # "exited" /\ Rotating # {} /\ allOk) =>
                /\ prov' = "open"
                /\ store' = loadFromFile(file).store]_vars

\* a line that is empty once trimmed
Blank(line) == line.kind = "raw" /\ line.text = ""

\* the scanner of connection c takes the next line the client wrote
Takes(c) == pc[c] = "scan" /\ inbox[c] # <<>> /\ inbox'[c] = Tail(inbox[c])

\* C28: on a connection each line is taken only when no command is pending;
\* a blank line gets no response and a non-blank one becomes the pending
\* command, whose response is the next one written and is written once; the
\* connection is closed only when the client has closed it or a response
\* could not be written.
C28_OneResponsePerLineInOrder ==
    [][\A c \in Conns :
         /\ Takes(c) =>
               /\ cmd[c] = ZeroCmd
               /\ served'[c] = served[c]
               /\ Head(inbox[c]) = EOF => pc'[c] = "closed"
               /\ Blank(Head(inbox[c])) => (pc'[c] = "scan" /\ cmd'[c] = ZeroCmd)
               /\ (Head(inbox[c]) # EOF /\ ~Blank(Head(inbox[c]))) =>
                     (pc'[c] \in {"lock", "respond"} /\ cmd'[c].line = Head(inbox[c]))
         /\ served'[c] # served[c] =>
               /\ pc[c] = "respond"
               /\ served'[c] = Append(served[c], served'[c][Len(served'[c])])
               /\ served'[c][Len(served'[c])].line = cmd[c].line
               /\ cmd'[c] = ZeroCmd
               /\ pc'[c] = "scan"
               /\ inbox'[c] = inbox[c]
         /\ (pc[c] # "closed" /\ pc'[c] = "closed") =>
               \/ Takes(c) /\ Head(inbox[c]) = EOF
               \/ pc[c] = "respond" /\ HungUp(c)
      ]_vars

\* C29: once Start() has returned, with nil, with the error of a failed bind
\* or with the error of a failed accept, IsRunning() is false and the
\* listener Start opened, if any, is closed.
C29_ReturnedStartLeavesServerStopped ==
    (spc = "returned" /\ sret \in {"nil", "failed to listen", "failed to accept connection"})
        => (~IsRunning(srv) /\ sock # "open")

\* C30: when a call of IsRunning() returns true, the listener is bound and
\* open and GetAddress() gives the bound address, not the configured one.
C30_RunningMeansBound ==
    [][\A i \in Inspectors :
         (ipc[i] = "read" /\ ires[i].op = "IsRunning" /\ ires'[i].done /\ ires'[i].running)
            => (sock = "open" /\ GetAddress(srv) = "bound")]_vars

=============================================================================
